---- MODULE Spec2Model ----
(***************************************************************************)
(* Model of the two reconciliation scripts of cuesta-trees:                *)
(*   scripts/check_signs.py     check_and_correct_signs()                   *)
(*   scripts/check_taxonomy.py  check_taxonomy(), get_best_gbif_match(),    *)
(*                              get_english_common_name_by_key()            *)
(* One behaviour is one run of one script.  Text values are sequences of    *)
(* one-character strings, so that strip() and lower() are computed.         *)
(***************************************************************************)
EXTENDS Integers, Sequences, FiniteSets, TLC

VARIABLES script, pc, signs_df, master_gdf, sign_columns, master_columns,
          discrepancies, csv, write_state, written_layer,
          gdf, gdf_columns, log

vars == <<script, pc, signs_df, master_gdf, sign_columns, master_columns,
          discrepancies, csv, write_state, written_layer,
          gdf, gdf_columns, log>>

----------------------------------------------------------------------------
(* Bounds of the model: the largest tables a run loads. *)

MaxSigns == 3

MaxMaster == 2

MaxSpecies == 2

----------------------------------------------------------------------------
(* Text values *)

\* An absent cell (None / NaN); pd.isna is true of it and of nothing else.
NULL == <<"<absent>">>

isna(v) == v = NULL

\* str(None): the text Python prints for an absent cell.
NoneText == <<"N", "o", "n", "e">>

str(v) == IF isna(v) THEN NoneText ELSE v

UpperToLower == [A |-> "a", B |-> "b", C |-> "c", D |-> "d", N |-> "n"]

LowerChar(c) == IF c \in DOMAIN UpperToLower THEN UpperToLower[c] ELSE c

lower(s) == [k \in 1..Len(s) |-> LowerChar(s[k])]

IsSpace(c) == c = " "

RECURSIVE lstrip(_)
lstrip(s) == IF s # <<>> /\ IsSpace(Head(s)) THEN lstrip(Tail(s)) ELSE s

RECURSIVE rstrip(_)
rstrip(s) ==
    IF s # <<>> /\ IsSpace(s[Len(s)]) THEN rstrip(SubSeq(s, 1, Len(s) - 1)) ELSE s

strip(s) == rstrip(lstrip(s))

\* Python truthiness of an Optional[str]: neither None nor "".
Truthy(v) == ~isna(v) /\ v # <<>>

\* " ".join(list of str)
RECURSIVE join(_)
join(parts) ==
    IF parts = <<>> THEN ""
    ELSE IF Len(parts) = 1 THEN parts[1]
    ELSE parts[1] \o " " \o join(Tail(parts))

\* All sequences over S of length 0..n.
SeqUpTo(S, n) == UNION {[1..k -> S] : k \in 0..n}

\* list.append(item), the way both scripts collect their discrepancies
PrependDiscrepancy(list, item) == <<item>> \o list

AddDiscrepancy(list, item) == Append(list, item)

----------------------------------------------------------------------------
(* check_signs.py: tables *)

sign_cols_prefixed ==
    {"tree_id", "sign_scientific_name", "sign_common_name", "sign_family"}

master_cols == {"scientific_name", "common_name", "family", "origin"}

OldStatus == "Good"

OldNotes == ""

SignRow(id, sci, common, family) ==
    [tree_id |-> id, sign_scientific_name |-> sci, sign_common_name |-> common,
     sign_family |-> family, sign_status |-> OldStatus, sign_notes |-> OldNotes]

MasterRow(id, sci, common, family) ==
    [tree_id |-> id, scientific_name |-> sci, common_name |-> common,
     family |-> family, origin |-> <<"o">>]

\* Rows a sign inventory may hold.  tree_id, the join key, is never absent in
\* these tables, so every discrepancy finds its row in the update loop.
SignRows ==
    { SignRow(1, <<"a">>, <<"b">>, <<"c">>),
      SignRow(1, <<" ", "A">>, <<"B", " ">>, <<"C">>),
      SignRow(1, <<"b">>, NULL, <<"d">>),
      SignRow(2, <<"a">>, NULL, <<"c">>),
      SignRow(2, <<"a">>, <<" ">>, <<"c">>) }

\* Rows a species master may hold.
MasterRows ==
    { MasterRow(1, <<"a">>, <<"b">>, <<"c">>),
      MasterRow(1, <<"b">>, <<"b">>, <<"c">>),
      MasterRow(2, <<"a">>, <<>>, <<"c">>),
      MasterRow(2, <<"a">>, NULL, <<"c">>),
      MasterRow(2, NULL, <<"b">>, <<"c">>) }

SignTables == SeqUpTo(SignRows, MaxSigns)

MasterTables == SeqUpTo(MasterRows, MaxMaster)

\* Column sets of the two layers: complete, or lacking one column.
SignColumnSets ==
    {sign_cols_prefixed} \cup {sign_cols_prefixed \ {c} : c \in sign_cols_prefixed}

AllMasterColumns == {"tree_id"} \cup master_cols

MasterColumnSets ==
    {AllMasterColumns} \cup {AllMasterColumns \ {c} : c \in AllMasterColumns}

----------------------------------------------------------------------------
(* check_signs.py: the comparison *)

NotFoundReason == "Tree ID not found in master list."

SciReason == "Scientific name mismatch."

CommonReason == "Common name mismatch."

FamilyReason == "Family mismatch."

MissingFromMaster == <<"Missing from master list">>

\* Row indexes of the master whose tree_id is id, in table order.
RECURSIVE MatchesFrom(_, _, _)
MatchesFrom(master, id, j) ==
    IF j > Len(master) THEN <<>>
    ELSE IF master[j].tree_id = id
         THEN <<j>> \o MatchesFrom(master, id, j + 1)
         ELSE MatchesFrom(master, id, j + 1)

\* One row of merged_df; subject and ref are the positions of the sign row
\* and of the master row it was joined with (0: no master row).
MergedRow(signs, master, i, j) ==
    [subject |-> i, ref |-> j,
     tree_id |-> signs[i].tree_id,
     scientific_name_sign |-> signs[i].sign_scientific_name,
     common_name_sign |-> signs[i].sign_common_name,
     family_sign |-> signs[i].sign_family,
     scientific_name_master |-> IF j = 0 THEN NULL ELSE master[j].scientific_name,
     common_name_master |-> IF j = 0 THEN NULL ELSE master[j].common_name,
     family_master |-> IF j = 0 THEN NULL ELSE master[j].family,
     origin |-> IF j = 0 THEN NULL ELSE master[j].origin]

\* pd.merge(signs_to_check, master, on='tree_id', how='left'): the sign rows in
\* their order, each once per master row of its tree_id, or once unjoined.
RECURSIVE MergeFrom(_, _, _)
MergeFrom(signs, master, i) ==
    IF i > Len(signs) THEN <<>>
    ELSE LET m == MatchesFrom(master, signs[i].tree_id, 1)
             rows == IF m = <<>>
                     THEN <<MergedRow(signs, master, i, 0)>>
                     ELSE [k \in 1..Len(m) |-> MergedRow(signs, master, i, m[k])]
         IN  rows \o MergeFrom(signs, master, i + 1)

merge(signs, master) == MergeFrom(signs, master, 1)

Differs(a, b) == lower(strip(str(a))) # lower(strip(str(b)))

mismatch_reasons(row) ==
    IF isna(row.scientific_name_master)
    THEN <<NotFoundReason>>
    ELSE (IF Differs(row.scientific_name_sign, row.scientific_name_master)
          THEN <<SciReason>> ELSE <<>>)
         \o (IF Differs(row.common_name_sign, row.common_name_master)
             THEN <<CommonReason>> ELSE <<>>)
         \o (IF Differs(row.family_sign, row.family_master)
             THEN <<FamilyReason>> ELSE <<>>)

SignDiscrepancy(row) ==
    LET reasons == mismatch_reasons(row)
        found == ~isna(row.scientific_name_master)
    IN  [subject |-> row.subject, ref |-> row.ref, reasons |-> reasons,
         tree_id |-> row.tree_id,
         note |-> join(reasons),
         scientific_name |-> IF found THEN row.scientific_name_master
                             ELSE MissingFromMaster,
         common_name |-> IF found THEN row.common_name_master ELSE MissingFromMaster,
         family |-> IF found THEN row.family_master ELSE MissingFromMaster,
         origin |-> IF found THEN row.origin ELSE MissingFromMaster]

RECURSIVE CollectFrom(_, _, _)
CollectFrom(merged, k, acc) ==
    IF k > Len(merged) THEN acc
    ELSE CollectFrom(merged, k + 1,
                     IF mismatch_reasons(merged[k]) # <<>>
                     THEN AddDiscrepancy(acc, SignDiscrepancy(merged[k]))
                     ELSE acc)

find_discrepancies(signs, master) == CollectFrom(merge(signs, master), 1, <<>>)

\* The rows of new_sign_orders.csv, in the order of the discrepancies.
order_list(discs) ==
    [k \in 1..Len(discs) |->
        [tree_id |-> discs[k].tree_id, scientific_name |-> discs[k].scientific_name,
         common_name |-> discs[k].common_name, family |-> discs[k].family,
         origin |-> discs[k].origin, note |-> discs[k].note]]

\* One pass of the update loop: every row of the tree gets status and note.
UpdateRows(signs, d) ==
    [i \in 1..Len(signs) |->
        IF signs[i].tree_id = d.tree_id
        THEN [signs[i] EXCEPT !.sign_status = "Sign Issue", !.sign_notes = d.note]
        ELSE signs[i]]

RECURSIVE apply_updates(_, _, _)
apply_updates(signs, discs, k) ==
    IF k > Len(discs) THEN signs
    ELSE apply_updates(UpdateRows(signs, discs[k]), discs, k + 1)

update_count(signs, discs) ==
    Cardinality({k \in 1..Len(discs) :
                    \E i \in 1..Len(signs) : signs[i].tree_id = discs[k].tree_id})

\* The order of the sections that follow the comparison: the report is
\* generated, then the geopackage is updated.
UpdateFirstStage(stage) ==
    CASE stage = "find" -> "update"
      [] stage = "update" -> "report"
      [] stage = "report" -> "done"

StageAfter(stage) ==
    CASE stage = "find" -> "report"
      [] stage = "report" -> "update"
      [] stage = "update" -> "done"

NoCsv == [written |-> FALSE, rows |-> <<>>]

----------------------------------------------------------------------------
(* check_signs.py: the steps of check_and_correct_signs *)

\* gpd.read_file of both layers; any exception is reported and the run returns.
SignsLoadFails ==
    /\ script = "signs" /\ pc = "load"
    /\ pc' = "aborted"
    /\ UNCHANGED <<script, signs_df, master_gdf, sign_columns, master_columns,
                   discrepancies, csv, write_state, written_layer,
                   gdf, gdf_columns, log>>

SignsLoad ==
    /\ script = "signs" /\ pc = "load"
    /\ \E s \in SignTables, m \in MasterTables :
          /\ signs_df' = s
          /\ master_gdf' = m
          /\ sign_columns' = sign_cols_prefixed
          /\ master_columns' = AllMasterColumns
    /\ pc' = "columns"
    /\ UNCHANGED <<script, discrepancies, csv, write_state, written_layer,
                   gdf, gdf_columns, log>>

\* The same read of layers of which one lacks a column (tables of at most one
\* row: no row is read before the column check ends the run).
SignsLoadIncomplete ==
    /\ script = "signs" /\ pc = "load"
    /\ \E s \in SeqUpTo(SignRows, 1), m \in SeqUpTo(MasterRows, 1),
          sc \in SignColumnSets, mc \in MasterColumnSets :
          /\ sc # sign_cols_prefixed \/ mc # AllMasterColumns
          /\ signs_df' = s
          /\ master_gdf' = m
          /\ sign_columns' = sc
          /\ master_columns' = mc
    /\ pc' = "columns"
    /\ UNCHANGED <<script, discrepancies, csv, write_state, written_layer,
                   gdf, gdf_columns, log>>

\* The column checks, and master_gdf[['tree_id'] + master_cols], which raises
\* KeyError when the master has no tree_id column.
SignsCheckColumns ==
    /\ script = "signs" /\ pc = "columns"
    /\ pc' = IF ~(sign_cols_prefixed \subseteq sign_columns) THEN "aborted"
             ELSE IF ~(master_cols \subseteq master_columns) THEN "aborted"
             ELSE IF "tree_id" \notin master_columns THEN "crashed"
             ELSE "find"
    /\ UNCHANGED <<script, signs_df, master_gdf, sign_columns, master_columns,
                   discrepancies, csv, write_state, written_layer,
                   gdf, gdf_columns, log>>

SignsFindDiscrepancies ==
    /\ script = "signs" /\ pc = "find"
    /\ discrepancies' = find_discrepancies(signs_df, master_gdf)
    /\ pc' = IF discrepancies' = <<>> THEN "done" ELSE StageAfter("find")
    /\ UNCHANGED <<script, signs_df, master_gdf, sign_columns, master_columns,
                   csv, write_state, written_layer, gdf, gdf_columns, log>>

\* order_list_df.to_csv(OUTPUT_CSV_NAME)
SignsWriteReport ==
    /\ script = "signs" /\ pc = "report"
    /\ csv' = [written |-> TRUE, rows |-> order_list(discrepancies)]
    /\ pc' = StageAfter("report")
    /\ UNCHANGED <<script, signs_df, master_gdf, sign_columns, master_columns,
                   discrepancies, write_state, written_layer,
                   gdf, gdf_columns, log>>

\* to_csv raises (it is not inside a try): the run ends there.
SignsWriteReportFails ==
    /\ script = "signs" /\ pc = "report"
    /\ pc' = "crashed"
    /\ UNCHANGED <<script, signs_df, master_gdf, sign_columns, master_columns,
                   discrepancies, csv, write_state, written_layer,
                   gdf, gdf_columns, log>>

\* The update loop, then pyogrio.write_dataframe inside try/except.
SignsUpdateGeopackage ==
    /\ script = "signs" /\ pc = "update"
    /\ signs_df' = apply_updates(signs_df, discrepancies, 1)
    /\ IF update_count(signs_df, discrepancies) > 0
       THEN \E ok \in BOOLEAN :
               /\ write_state' = IF ok THEN "ok" ELSE "failed"
               /\ written_layer' = IF ok THEN signs_df' ELSE written_layer
       ELSE UNCHANGED <<write_state, written_layer>>
    /\ pc' = StageAfter("update")
    /\ UNCHANGED <<script, master_gdf, sign_columns, master_columns,
                   discrepancies, csv, gdf, gdf_columns, log>>

SignsNext ==
    \/ SignsLoadFails
    \/ SignsLoad
    \/ SignsLoadIncomplete
    \/ SignsCheckColumns
    \/ SignsFindDiscrepancies
    \/ SignsWriteReport
    \/ SignsWriteReportFails
    \/ SignsUpdateGeopackage

----------------------------------------------------------------------------
(* check_taxonomy.py: the table and the GBIF answers *)

TaxColumns == {"scientific_name", "family", "common_name"}

SpeciesRow(sci, family, common) ==
    [scientific_name |-> sci, family |-> family, common_name |-> common]

\* Rows the checked table may hold.
SpeciesRows ==
    { SpeciesRow(<<"a">>, <<"c">>, <<"b">>),
      SpeciesRow(<<" ", "A">>, <<"C">>, <<"B">>),
      SpeciesRow(<<"b">>, NULL, <<"b">>),
      SpeciesRow(NULL, <<"c">>, <<"b">>),
      SpeciesRow(<<>>, <<"c">>, <<"b">>) }

SpeciesTables == SeqUpTo(SpeciesRows, MaxSpecies)

\* The table's columns: the three the script reads, or all but one of them.
TaxColumnSets == {TaxColumns} \cup {TaxColumns \ {c} : c \in TaxColumns}

\* row.get(column): None when the table has no such column.
row_get(row, columns, column) == IF column \in columns THEN row[column] ELSE NULL

NoData ==
    [matchType |-> "", canonicalName |-> NULL, family |-> NULL, usageKey |-> 0,
     confidence |-> 0]

\* JSON bodies the /match endpoint may answer with (usageKey 0: no key).
MatchData ==
    { [matchType |-> "NONE", canonicalName |-> NULL, family |-> NULL,
       usageKey |-> 0, confidence |-> 0],
      [matchType |-> "EXACT", canonicalName |-> <<"a">>, family |-> <<"c">>,
       usageKey |-> 7, confidence |-> 99],
      [matchType |-> "FUZZY", canonicalName |-> <<"a">>, family |-> <<"d">>,
       usageKey |-> 0, confidence |-> 90] }

\* What requests.get(match_url) does: raise a RequestException, or answer.
MatchResponses ==
    {[raises |-> TRUE, data |-> NoData]} \cup
    {[raises |-> FALSE, data |-> d] : d \in MatchData}

VernacularName(language, name) == [language |-> language, vernacularName |-> name]

\* "results" lists the /vernacularNames endpoint may answer with.
VernacularResults ==
    { <<>>,
      <<VernacularName("fra", <<"d">>), VernacularName("eng", <<"b">>)>>,
      <<VernacularName("eng", <<"B", " ">>)>> }

VernacularResponses ==
    {[raises |-> TRUE, results |-> <<>>]} \cup
    {[raises |-> FALSE, results |-> r] : r \in VernacularResults}

----------------------------------------------------------------------------
(* check_taxonomy.py: the lookups *)

\* The result of a lookup: the value returned, or an exception leaving it.
Returned(value, requested, failed) ==
    [raised |-> FALSE, value |-> value, requested |-> requested, failed |-> failed]

\* except requests.exceptions.RequestException: print(...); return None
RequestExceptionEscapes(none) ==
    [raised |-> TRUE, value |-> none, requested |-> TRUE, failed |-> TRUE]

RequestExceptionCaught(none) == Returned(none, TRUE, TRUE)

get_best_gbif_match(scientific_name, response) ==
    IF ~Truthy(scientific_name) THEN Returned(NoData, FALSE, FALSE)
    ELSE IF response.raises THEN RequestExceptionCaught(NoData)
    ELSE IF response.data.matchType # "NONE" THEN Returned(response.data, TRUE, FALSE)
    ELSE Returned(NoData, TRUE, FALSE)

RECURSIVE FirstEnglish(_)
FirstEnglish(results) ==
    IF results = <<>> THEN NULL
    ELSE IF Head(results).language = "eng" THEN Head(results).vernacularName
    ELSE FirstEnglish(Tail(results))

get_english_common_name_by_key(usage_key, response) ==
    IF usage_key = 0 THEN Returned(NULL, FALSE, FALSE)
    ELSE IF response.raises THEN RequestExceptionCaught(NULL)
    ELSE Returned(FirstEnglish(response.results), TRUE, FALSE)

\* a.lower() != b.lower() if a and b else False
LowerDiffers(a, b) == IF Truthy(a) /\ Truthy(b) THEN lower(a) # lower(b) ELSE FALSE

TaxDiscrepancy(i, sci, family, common, match, gbif_common) ==
    [subject |-> i,
     original_scientific_name |-> sci, gbif_scientific_name |-> match.canonicalName,
     original_family |-> family, gbif_family |-> match.family,
     original_common_name |-> common, gbif_common_name |-> gbif_common,
     gbif_match_confidence |-> match.confidence,
     gbif_match_type |-> match.matchType]

\* What the run did for one row: the lookups made and what they returned.
LogEntry(match, vern) ==
    [requested |-> match.requested, failed |-> match.failed,
     matched |-> match.value # NoData, match |-> match.value,
     vern_requested |-> vern.requested, vern_failed |-> vern.failed,
     gbif_common_name |-> vern.value]

NoVernacular == Returned(NULL, FALSE, FALSE)

----------------------------------------------------------------------------
(* check_taxonomy.py: the steps of check_taxonomy *)

TaxLoadFails ==
    /\ script = "taxonomy" /\ pc = "load"
    /\ pc' = "aborted"
    /\ UNCHANGED <<script, signs_df, master_gdf, sign_columns, master_columns,
                   discrepancies, csv, write_state, written_layer,
                   gdf, gdf_columns, log>>

TaxLoad ==
    /\ script = "taxonomy" /\ pc = "load"
    /\ \E t \in SpeciesTables, c \in TaxColumnSets :
          /\ gdf' = t
          /\ gdf_columns' = c
    /\ pc' = "rows"
    /\ UNCHANGED <<script, signs_df, master_gdf, sign_columns, master_columns,
                   discrepancies, csv, write_state, written_layer, log>>

\* One pass of the loop over gdf.iterrows(): both lookups and the comparison.
TaxCheckRow ==
    /\ script = "taxonomy" /\ pc = "rows"
    /\ Len(log) < Len(gdf)
    /\ \E mr \in MatchResponses, vr \in VernacularResponses :
          LET i == Len(log) + 1
              sci == row_get(gdf[i], gdf_columns, "scientific_name")
              family == row_get(gdf[i], gdf_columns, "family")
              common == row_get(gdf[i], gdf_columns, "common_name")
              match == get_best_gbif_match(sci, mr)
              found == ~match.raised /\ match.value # NoData
              vern == IF found
                      THEN get_english_common_name_by_key(match.value.usageKey, vr)
                      ELSE NoVernacular
              mismatch ==
                  \/ LowerDiffers(sci, match.value.canonicalName)
                  \/ LowerDiffers(family, match.value.family)
                  \/ LowerDiffers(common, vern.value)
          IN  IF match.raised \/ vern.raised
              THEN /\ pc' = "crashed"
                   /\ UNCHANGED <<discrepancies, log>>
              ELSE /\ pc' = "rows"
                   /\ log' = Append(log, LogEntry(match, vern))
                   /\ discrepancies' =
                         IF found /\ mismatch
                         THEN AddDiscrepancy(discrepancies,
                                 TaxDiscrepancy(i, sci, family, common,
                                                match.value, vern.value))
                         ELSE discrepancies
    /\ UNCHANGED <<script, signs_df, master_gdf, sign_columns, master_columns,
                   csv, write_state, written_layer, gdf, gdf_columns>>

\* 4. Generate Output: the CSV is written when there is a discrepancy.
TaxOutput ==
    /\ script = "taxonomy" /\ pc = "rows"
    /\ Len(log) = Len(gdf)
    /\ csv' = IF discrepancies # <<>>
              THEN [written |-> TRUE, rows |-> discrepancies]
              ELSE csv
    /\ pc' = "done"
    /\ UNCHANGED <<script, signs_df, master_gdf, sign_columns, master_columns,
                   discrepancies, write_state, written_layer,
                   gdf, gdf_columns, log>>

\* discrepancies_df.to_csv raises (it is not inside a try).
TaxOutputFails ==
    /\ script = "taxonomy" /\ pc = "rows"
    /\ Len(log) = Len(gdf)
    /\ discrepancies # <<>>
    /\ pc' = "crashed"
    /\ UNCHANGED <<script, signs_df, master_gdf, sign_columns, master_columns,
                   discrepancies, csv, write_state, written_layer,
                   gdf, gdf_columns, log>>

TaxNext ==
    \/ TaxLoadFails
    \/ TaxLoad
    \/ TaxCheckRow
    \/ TaxOutput
    \/ TaxOutputFails

----------------------------------------------------------------------------
Init ==
    /\ script \in {"signs", "taxonomy"}
    /\ pc = "load"
    /\ signs_df = <<>>
    /\ master_gdf = <<>>
    /\ sign_columns = {}
    /\ master_columns = {}
    /\ discrepancies = <<>>
    /\ csv = NoCsv
    /\ write_state = "none"
    /\ written_layer = <<>>
    /\ gdf = <<>>
    /\ gdf_columns = {}
    /\ log = <<>>

Next == SignsNext \/ TaxNext

Spec == Init /\ [][Next]_vars

----------------------------------------------------------------------------
(* States the properties speak about *)

\* check_and_correct_signs has compared every merged row.
SignsCompared == script = "signs" /\ pc \in {"report", "update", "done"}

\* check_taxonomy has left its loop and passed the output step.
TaxFinished == script = "taxonomy" /\ pc = "done"

\* The positions, in the discrepancy list, of the discrepancies of subject i.
DiscsOf(i) == {k \in DOMAIN discrepancies : discrepancies[k].subject = i}

\* The master rows that carry the tree_id of sign row i.
Counterparts(i) ==
    {j \in DOMAIN master_gdf : master_gdf[j].tree_id = signs_df[i].tree_id}

Original(i, column) == row_get(gdf[i], gdf_columns, column)

\* Equality of two present texts after trimming and lowercasing.
EqualCI(a, b) == ~isna(a) /\ ~isna(b) /\ lower(strip(a)) = lower(strip(b))

BlankOrAbsent(v) == isna(v) \/ strip(v) = <<>>

ComparedFields ==
    { [sign |-> "sign_scientific_name", master |-> "scientific_name",
       reason |-> SciReason],
      [sign |-> "sign_common_name", master |-> "common_name",
       reason |-> CommonReason],
      [sign |-> "sign_family", master |-> "family", reason |-> FamilyReason] }

HasReason(d, reason) == \E n \in DOMAIN d.reasons : d.reasons[n] = reason

----------------------------------------------------------------------------
(* C1 *)

C1_Signs ==
    SignsCompared =>
        \A i \in DOMAIN signs_df :
            Counterparts(i) = {} =>
                /\ Cardinality(DiscsOf(i)) = 1
                /\ \A k \in DiscsOf(i) :
                      /\ discrepancies[k].reasons = <<NotFoundReason>>
                      /\ discrepancies[k].note = NotFoundReason
                      /\ discrepancies[k].scientific_name = MissingFromMaster
                      /\ discrepancies[k].common_name = MissingFromMaster
                      /\ discrepancies[k].family = MissingFromMaster
                      /\ discrepancies[k].origin = MissingFromMaster

C1_Taxonomy ==
    TaxFinished =>
        \A i \in DOMAIN gdf : ~log[i].matched => Cardinality(DiscsOf(i)) = 1

\* C1: in both scripts every subject without an authoritative counterpart
\* yields exactly one discrepancy, whose only reason is "not found" and whose
\* corrected fields are the missing sentinel.
C1_NotFoundReported == C1_Signs /\ C1_Taxonomy

----------------------------------------------------------------------------
(* C2 *)

C2_Signs ==
    SignsCompared =>
        \A i \in DOMAIN signs_df :
            (/\ Counterparts(i) # {}
             /\ \A j \in Counterparts(i) : \A f \in ComparedFields :
                    EqualCI(signs_df[i][f.sign], master_gdf[j][f.master]))
            => DiscsOf(i) = {}

C2_Taxonomy ==
    TaxFinished =>
        \A i \in DOMAIN gdf :
            (/\ log[i].matched
             /\ EqualCI(Original(i, "scientific_name"), log[i].match.canonicalName)
             /\ EqualCI(Original(i, "family"), log[i].match.family)
             /\ EqualCI(Original(i, "common_name"), log[i].gbif_common_name))
            => DiscsOf(i) = {}

\* C2: in both scripts a subject whose compared fields all equal its
\* counterpart's after trimming whitespace and lowercasing yields no
\* discrepancy.
C2_CaseWhitespaceInsensitive == C2_Signs /\ C2_Taxonomy

----------------------------------------------------------------------------
(* C3 *)

AllFieldReasons == <<SciReason, CommonReason, FamilyReason>>

\* The reason lists that keep the comparison order.
OrderedReasonLists ==
    {SelectSeq(AllFieldReasons, LAMBDA r : r \in T) :
        T \in SUBSET {SciReason, CommonReason, FamilyReason}}

C3_ReasonsInOrder ==
    SignsCompared =>
        \A k \in DOMAIN discrepancies :
            /\ \/ discrepancies[k].reasons = <<NotFoundReason>>
               \/ discrepancies[k].reasons \in OrderedReasonLists
            /\ discrepancies[k].note = join(discrepancies[k].reasons)

\* C3: each sign row contributes at most one discrepancy, which holds all of
\* the row's field reasons in comparison order, whatever the master holds.
C3_AtMostOnePerSubject ==
    /\ SignsCompared => \A i \in DOMAIN signs_df : Cardinality(DiscsOf(i)) <= 1
    /\ C3_ReasonsInOrder

----------------------------------------------------------------------------
(* C4 *)

\* C4: in both scripts any two discrepancies stand, in the list and in the
\* report written from it, in the order of their subjects in the input table.
C4_InputOrder ==
    /\ \A k1, k2 \in DOMAIN discrepancies :
          k1 < k2 => discrepancies[k1].subject <= discrepancies[k2].subject
    /\ csv.written =>
          /\ Len(csv.rows) = Len(discrepancies)
          /\ script = "signs" =>
                \A k \in DOMAIN csv.rows :
                    csv.rows[k].tree_id = signs_df[discrepancies[k].subject].tree_id
          /\ script = "taxonomy" =>
                \A k \in DOMAIN csv.rows :
                    csv.rows[k].subject = discrepancies[k].subject

\* A report of check_signs with two discrepancies between whose subjects a
\* consistent sign row was dropped.
C4_Witness ==
    /\ script = "signs" /\ csv.written
    /\ \E k \in DOMAIN csv.rows :
          /\ k + 1 \in DOMAIN csv.rows
          /\ discrepancies[k].subject + 1 < discrepancies[k + 1].subject

----------------------------------------------------------------------------
(* C5 *)

\* C5: a lookup that raises a transport error never ends check_taxonomy: the
\* subject counts as unmatched (or as having no common name), every subject is
\* still looked up, and the output step is reached.
C5_LookupErrorsContained ==
    (script = "taxonomy" /\ pc \in {"done", "crashed"}) =>
        /\ Len(log) = Len(gdf)
        /\ \A i \in DOMAIN log :
              /\ Truthy(Original(i, "scientific_name")) => log[i].requested
              /\ log[i].failed => ~log[i].matched /\ DiscsOf(i) = {}
              /\ log[i].vern_failed => isna(log[i].gbif_common_name)

\* A finished run in which a match lookup failed for one subject, and a later
\* subject was matched, lost its common-name lookup and was still reported.
C5_Witness ==
    /\ TaxFinished /\ csv.written
    /\ \E i, j \in DOMAIN log :
          /\ i < j
          /\ log[i].failed
          /\ log[j].matched /\ log[j].vern_failed
          /\ DiscsOf(j) # {}

----------------------------------------------------------------------------
(* C6 *)

\* C6: whenever the write of sign_inventory_current has been attempted, with
\* or without success, new_sign_orders.csv has been written and holds the
\* order list.
C6_ReportBeforeUpdate ==
    (script = "signs" /\ write_state # "none") =>
        /\ csv.written
        /\ csv.rows = order_list(discrepancies)
        /\ csv.rows # <<>>

\* A run whose table write failed after the report was written.
C6_Witness ==
    script = "signs" /\ pc = "done" /\ write_state = "failed" /\ csv.written

----------------------------------------------------------------------------
(* C7 *)

SignsInputUnusable ==
    /\ script = "signs"
    /\ \/ pc = "aborted"
       \/ /\ pc # "load"
          /\ \/ ~(sign_cols_prefixed \subseteq sign_columns)
             \/ ~(AllMasterColumns \subseteq master_columns)

TaxInputUnusable ==
    /\ script = "taxonomy"
    /\ \/ pc = "aborted"
       \/ pc # "load" /\ ~(TaxColumns \subseteq gdf_columns)

C7_Signs ==
    SignsInputUnusable =>
        /\ pc \in {"columns", "aborted", "crashed"}
        /\ ~csv.written
        /\ write_state = "none"

C7_Taxonomy ==
    TaxInputUnusable =>
        /\ ~csv.written
        /\ \A i \in DOMAIN log : ~log[i].requested /\ ~log[i].vern_requested

\* C7: when a table cannot be loaded or lacks a required column, nothing is
\* written and no lookup is made.
C7_NoPartialOutput == C7_Signs /\ C7_Taxonomy

----------------------------------------------------------------------------
(* C8 *)

\* C8: in the written sign_inventory_current exactly the rows that have a
\* discrepancy carry "Sign Issue" and the joined reasons of their own
\* discrepancy; every other row keeps its status and notes.
C8_OnlyDiscrepantRowsChanged ==
    (script = "signs" /\ write_state = "ok") =>
        \A i \in DOMAIN written_layer :
            IF DiscsOf(i) # {}
            THEN /\ written_layer[i].sign_status = "Sign Issue"
                 /\ \E k \in DiscsOf(i) :
                       written_layer[i].sign_notes = join(discrepancies[k].reasons)
            ELSE /\ written_layer[i].sign_status = OldStatus
                 /\ written_layer[i].sign_notes = OldNotes

----------------------------------------------------------------------------
(* C9 *)

C9_AbsentEqualsBlank ==
    SignsCompared =>
        \A k \in DOMAIN discrepancies :
            LET d == discrepancies[k] IN
            d.ref # 0 =>
                \A f \in ComparedFields :
                    LET s == signs_df[d.subject][f.sign]
                        m == master_gdf[d.ref][f.master]
                    IN  ((isna(s) \/ isna(m)) /\ BlankOrAbsent(s) /\ BlankOrAbsent(m))
                            => ~HasReason(d, f.reason)

C9_AbsentDiffersFromText ==
    SignsCompared =>
        \A i \in DOMAIN signs_df : \A j \in Counterparts(i) :
            \A f \in ComparedFields :
                (isna(signs_df[i][f.sign]) /\ ~BlankOrAbsent(master_gdf[j][f.master]))
                => \E k \in DiscsOf(i) :
                      /\ discrepancies[k].ref = j
                      /\ HasReason(discrepancies[k], f.reason)

\* C9: for a subject with a counterpart an absent field counts as the empty
\* text: it raises no mismatch against an empty or blank master field, and it
\* raises one against any other master value.
C9_AbsentIsEmptyText == C9_AbsentEqualsBlank /\ C9_AbsentDiffersFromText

----------------------------------------------------------------------------
(* C10 *)

IsNotFound(d) ==
    /\ d.reasons = <<NotFoundReason>>
    /\ d.scientific_name = MissingFromMaster
    /\ d.common_name = MissingFromMaster
    /\ d.family = MissingFromMaster
    /\ d.origin = MissingFromMaster

\* C10: a sign row is reported as not found exactly when no master row has
\* its tree_id; a row whose tree_id is in the master is compared field by
\* field and corrected with the master row's values.
C10_NotFoundIffNoTreeId ==
    SignsCompared =>
        \A i \in DOMAIN signs_df :
            /\ (Counterparts(i) = {}) <=>
                  (\E k \in DiscsOf(i) : IsNotFound(discrepancies[k]))
            /\ \A k \in DiscsOf(i) :
                  Counterparts(i) # {} =>
                      LET d == discrepancies[k] IN
                      /\ d.ref \in Counterparts(i)
                      /\ d.scientific_name = master_gdf[d.ref].scientific_name
                      /\ d.common_name = master_gdf[d.ref].common_name
                      /\ d.family = master_gdf[d.ref].family
                      /\ d.origin = master_gdf[d.ref].origin

====
